---- MODULE Spec2Model ----
(***************************************************************************)
(* Calibration (OTE) confidence-interval calculator.                       *)
(*                                                                         *)
(*   stats.py : ci_ote, calculate_p_value, p_val_to_str, BH_adjusted_pval, *)
(*              ci_ote_hdi, calculate_beta_hdi                             *)
(*   app.py   : the results table and its Calculate / Undo / Clear events  *)
(*                                                                         *)
(* Numbers.  Every confidence level and p-value of the program is a        *)
(* binary64 value lying next to a multiple of 0.0001.  Such a value is     *)
(* written Sub*k + s: k counts ten-thousandths, s = 0 is the double that   *)
(* the decimal literal k/10000 denotes, s = +1 / -1 a double just above /  *)
(* below it (0.9500000000000001 is Dec(9500) + 1).  The order of these     *)
(* integers is the order of the doubles.  Counts o and e may be            *)
(* fractional: they are held in units of 1/Half.  Quantiles of the Beta    *)
(* distribution are held in units of 1/QDen.  Other reals (interval        *)
(* bounds, adjusted p-values) are exact fractions <<num, den>>, den > 0.   *)
(***************************************************************************)
EXTENDS Integers, Sequences, FiniteSets, TLC

VARIABLES
    n, o, e,        \* arguments of calculate_p_value (o, e in 1/Half)
    dist,           \* the frozen Beta distribution of ci_ote
    pc,             \* position in calculate_p_value
    i,              \* number of grid levels taken by the for loop
    cl,             \* loop variable of calculate_p_value
    ci,             \* interval of the current iteration
    p_val,          \* value returned by calculate_p_value
    bh_pc,          \* position in BH_adjusted_pval
    bh_arg,         \* Python type of the argument of BH_adjusted_pval
    p_vals,         \* argument of BH_adjusted_pval
    adj_p_vals,     \* series returned by BH_adjusted_pval
    bh_error,       \* exception raised by BH_adjusted_pval
    fmt_pc,         \* position in p_val_to_str
    p_arg,          \* argument of p_val_to_str
    p_val_str,      \* string returned by p_val_to_str
    session,        \* the app session: "open", or "closed" by an error
    results_df,     \* reactive value: the results table
    results_df_to_display,  \* reactive value: the formatted table
    invalidated,    \* show_results_df is due to run in the current flush
    modal,          \* text of the modal shown by the last event, or ""
    stack,          \* history: rows pushed and not yet popped, newest first
    last_event,     \* history: the last input event and what it read
    hdi_pc,         \* position in ci_ote_hdi / calculate_beta_hdi / fmin
    hdi_p,          \* argument p of calculate_beta_hdi
    sim,            \* fmin: the best vertex of the simplex
    iterations,     \* fmin: iterations done
    fcalls,         \* fmin: evaluations of interval_width done
    within_tol,     \* fmin: the simplex meets xtol and ftol
    hdi_ci          \* outcome of ci_ote_hdi: [kind, ci]

pvVars == <<n, o, e, dist, pc, i, cl, ci, p_val>>
bhVars == <<bh_pc, bh_arg, p_vals, adj_p_vals, bh_error>>
fmtVars == <<fmt_pc, p_arg, p_val_str>>

appVars == <<session, results_df, results_df_to_display, invalidated, modal,
             stack, last_event>>

hdiVars == <<hdi_pc, hdi_p, sim, iterations, fcalls, within_tol, hdi_ci>>

vars == <<pvVars, bhVars, fmtVars, appVars, hdiVars>>

----------------------------------------------------------------------------
(* Bounds of the model *)

Sub == 3        \* sub-units per 0.0001 (room for one double either side)
Half == 2       \* o and e are multiples of 1/Half
QDen == 2       \* quantiles are multiples of 1/QDen
MaxN == 1       \* largest sample size n
MaxBatch == 3   \* longest batch handed to BH_adjusted_pval
MaxP == 600     \* p_val_to_str is applied to p-values up to MaxP / 10000
MaxRows == 3    \* most rows the results table is let grow to
MaxIter == 5    \* the caps maxiter and maxfun of fmin, scaled down

Dec(k) == Sub * k
One == Dec(10000)
None == "None"

----------------------------------------------------------------------------
(* Exact fractions <<num, den>> with den > 0 *)

RLt(x, y) == x[1] * y[2] < y[1] * x[2]
REq(x, y) == x[1] * y[2] = y[1] * x[2]
RLe(x, y) == x[1] * y[2] <= y[1] * x[2]
ROne == <<1, 1>>

----------------------------------------------------------------------------
(* numpy.arange over doubles, as calculate_p_value uses it.                *)
(*                                                                         *)
(* arange(start, stop, step) has ceil((stop - start) / step) elements, the *)
(* quotient taken in binary64, and element j is start + j * step in        *)
(* binary64.  With the three calls of calculate_p_value:                   *)
(*   (0.99 - 0.01) / 0.01    = 98.0                -> 98 elements          *)
(*   (0.999 - 0.99) / 0.001  = 9.000000000000007   -> 10 elements          *)
(*   (1 - 0.999) / 0.0001    = 10.000000000000009  -> 11 elements          *)
(* so the second call ends on 0.999, which the third call starts with      *)
(* again, and the third call ends on 0.9999999999999999.                   *)
(* Arguments below are in ten-thousandths.                                 *)

\* the binary64 quotient lies above the exact (integer) quotient
arange_quotient_excess(start, stop, step) ==
    <<start, stop, step>> \in {<<9900, 9990, 10>>, <<9990, 10000, 1>>}

arange_len(start, stop, step) ==
    ((stop - start) + step - 1) \div step
        + (IF arange_quotient_excess(start, stop, step) THEN 1 ELSE 0)

\* start + j * step lands on the double above (+1) or below (-1) the one
\* the decimal literal denotes, e.g. 0.01 + 94 * 0.01 = 0.9500000000000001
arange_residue(k) ==
    IF k \in {600, 1500, 1800, 2100, 2400, 2900, 3500, 3600, 4100, 4200,
              4700, 4800, 5700, 5800, 6900, 7000, 7100, 8200, 8300, 8400,
              9400, 9500, 9600}
    THEN 1
    ELSE IF k \in {700, 1000, 9995, 9996, 9997, 9998, 9999, 10000}
    THEN -1
    ELSE 0

arange(start, stop, step) ==
    [j \in 1..arange_len(start, stop, step) |->
        Dec(start + (j - 1) * step) + arange_residue(start + (j - 1) * step)]

conf_levels ==
    arange(100, 9900, 100) \o arange(9900, 9990, 10) \o arange(9990, 10000, 1)

NLevels == Len(conf_levels)

\* 1 - x in binary64, for x a grid level or a level of the select box.
\* The subtraction is exact; the result is compared with the double of the
\* decimal literal (1 - 0.98 = 0.020000000000000018 is Dec(200) + 1,
\* 1 - 0.9500000000000001 = 0.04999999999999993 is Dec(500) - 1,
\* 1 - 0.95 = 0.050000000000000044 is Dec(500) + 1).
one_minus_residue(x) ==
    IF x \in {Dec(3200), Dec(3300), Dec(3400), Dec(3500) + 1, Dec(3600) + 1,
              Dec(5400), Dec(5500), Dec(5600), Dec(5700) + 1, Dec(5800) + 1,
              Dec(6600), Dec(6700), Dec(6800), Dec(6900) + 1, Dec(7000) + 1,
              Dec(7100) + 1, Dec(7700), Dec(7800), Dec(7900), Dec(8000),
              Dec(8100), Dec(8200) + 1, Dec(8300) + 1, Dec(8400) + 1,
              Dec(8900), Dec(9000), Dec(9100), Dec(9200), Dec(9300),
              Dec(9400) + 1, Dec(9500) + 1, Dec(9600) + 1}
    THEN -1
    ELSE IF x \in {Dec(4300), Dec(5900), Dec(8500), Dec(9500), Dec(9700),
                   Dec(9800), Dec(9900), Dec(9910), Dec(9920), Dec(9930),
                   Dec(9940), Dec(9950), Dec(9960), Dec(9970), Dec(9980),
                   Dec(9990), Dec(9991), Dec(9992), Dec(9993), Dec(9994),
                   Dec(9995) - 1, Dec(9996) - 1, Dec(9997) - 1,
                   Dec(9998) - 1, Dec(9999) - 1, Dec(10000) - 1}
    THEN 1
    ELSE 0

Nearest(x) == (x + 1) \div Sub          \* ten-thousandths next to x

OneMinus(x) == Dec(10000 - Nearest(x)) + one_minus_residue(x)

----------------------------------------------------------------------------
(* scipy.stats.beta(a, b).ppf                                              *)
(*                                                                         *)
(* The quantile function of the frozen distribution is library code.  It   *)
(* is taken to be any non-decreasing step function of the probability with *)
(* ppf(0) = 0 and ppf(1) = 1: dist.vals are its values, dist.cuts the      *)
(* probabilities at which it steps.  Probabilities are numerators over     *)
(* 2 * One, so that (1 - cl) / 2 is One - cl and (1 + cl) / 2 is One + cl. *)

lower_tail(c) == One - c

\* 1 + 0.9999999999999999 rounds to 2.0: the upper tail of the last grid
\* level is the probability 1.0 itself
upper_tail(c) == IF c >= One - 1 THEN 2 * One ELSE One + c

ppf(d, prob) ==
    IF prob >= 2 * One THEN QDen
    ELSE IF prob <= 0 THEN 0
    ELSE d.vals[1 + Cardinality({j \in 1..Len(d.cuts) : d.cuts[j] <= prob})]

\* confidence levels from which on a modelled quantile function has stepped
CutLevels == {Dec(100), Dec(9500), One - 1}

\* one step in the lower tail (the lower quantile is vals[2] below the level
\* a and vals[1] from a on) and one in the upper tail (the upper quantile is
\* vals[2] below the level b and vals[3] from b on)
Dists ==
    {[cuts |-> <<lower_tail(a) + 1, One + b>>, vals |-> <<v0, v1, v2>>] :
        a \in CutLevels, b \in CutLevels, v0 \in 0..QDen, v1 \in 0..QDen,
        v2 \in 0..QDen}

IsDist(d) ==
    /\ d.cuts[1] <= d.cuts[2]
    /\ d.vals[1] <= d.vals[2]
    /\ d.vals[2] <= d.vals[3]

----------------------------------------------------------------------------
(* stats.py: ci_ote *)

\* ci_ote without its correction at the edge o = 0
ci_ote_NoZeroEdge(d, nn, oo, ee, c) ==
    LET q0 == ppf(d, lower_tail(c))
        q1 == ppf(d, upper_tail(c))
        ci_default_prob == <<q0, IF Half * nn = oo THEN QDen ELSE q1>>
    IN  <<<<ci_default_prob[1] * nn * Half, QDen * ee>>,
          <<ci_default_prob[2] * nn * Half, QDen * ee>>>>

ci_ote(d, nn, oo, ee, c) ==
    LET q0 == ppf(d, lower_tail(c))
        q1 == ppf(d, upper_tail(c))
        ci_default_prob == <<IF oo = 0 THEN 0 ELSE q0,
                             IF Half * nn = oo THEN QDen ELSE q1>>
    IN  <<<<ci_default_prob[1] * nn * Half, QDen * ee>>,
          <<ci_default_prob[2] * nn * Half, QDen * ee>>>>

\* the test of the for loop with the bounds themselves counted as inside
loop_test_Inclusive(x) == RLe(x[1], ROne) /\ RLe(ROne, x[2])

\* the test of the for loop: (ci[0] < 1) and (1 < ci[1])
loop_test(x) == RLt(x[1], ROne) /\ RLt(ROne, x[2])

----------------------------------------------------------------------------
(* stats.py: calculate_p_value, one action per loop iteration *)

\* the variables of a group while no call of that group is modelled
IdlePV ==
    /\ n = 1 /\ o = 0 /\ e = 1
    /\ dist = None /\ pc = "idle" /\ i = 0 /\ cl = None /\ ci = None
    /\ p_val = None
NoError == [type |-> "", text |-> "", shows |-> <<>>]
IdleBH ==
    /\ bh_pc = "idle" /\ bh_arg = "list of float" /\ p_vals = <<>>
    /\ adj_p_vals = None /\ bh_error = NoError
IdleFmt == fmt_pc = "idle" /\ p_arg = None /\ p_val_str = None
NoEvent == [name |-> "none", failed |-> {}, computed |-> FALSE]
IdleApp ==
    /\ session = "idle" /\ results_df = <<>> /\ results_df_to_display = <<>>
    /\ invalidated = FALSE /\ modal = "" /\ stack = <<>>
    /\ last_event = NoEvent
NoOutcome == [kind |-> "None", ci |-> <<>>]
IdleHDI ==
    /\ hdi_pc = "idle" /\ hdi_p = None /\ sim = None /\ iterations = 0
    /\ fcalls = 0 /\ within_tol = FALSE /\ hdi_ci = NoOutcome

ValidInputs ==
    {t \in (1..MaxN) \X (0..Half * MaxN) \X (1..Half * MaxN) :
        t[2] <= Half * t[1] /\ t[3] <= Half * t[1]}

InitPV ==
    /\ \E t \in ValidInputs : n = t[1] /\ o = t[2] /\ e = t[3]
    /\ dist \in {d \in Dists : IsDist(d)}
    /\ pc = "loop"
    /\ i = 0
    /\ cl = None
    /\ ci = None
    /\ p_val = None
    /\ IdleBH
    /\ IdleFmt
    /\ IdleApp
    /\ IdleHDI

\* the loop body without its break
Iterate_NoBreak ==
    /\ pc = "loop"
    /\ i < NLevels
    /\ i' = i + 1
    /\ cl' = conf_levels[i + 1]
    /\ ci' = ci_ote(dist, n, o, e, conf_levels[i + 1])
    /\ pc' = "loop"
    /\ UNCHANGED <<n, o, e, dist, p_val, bhVars, fmtVars, appVars, hdiVars>>

\* for cl in conf_levels: ci = ci_ote(...); if contains 1: break
Iterate ==
    /\ pc = "loop"
    /\ i < NLevels
    /\ LET c == conf_levels[i + 1]
           x == ci_ote(dist, n, o, e, c)
       IN  /\ i' = i + 1
           /\ cl' = c
           /\ ci' = x
           /\ pc' = IF loop_test(x) THEN "return" ELSE "loop"
    /\ UNCHANGED <<n, o, e, dist, p_val, bhVars, fmtVars, appVars, hdiVars>>

\* the iterator is exhausted: the loop ends without a break
Exhaust ==
    /\ pc = "loop"
    /\ i = NLevels
    /\ pc' = "return"
    /\ UNCHANGED <<n, o, e, dist, i, cl, ci, p_val, bhVars, fmtVars, appVars, hdiVars>>

\* a return of 1 - cl for the level before the one the loop ended on
Return_PreviousLevel ==
    /\ pc = "return"
    /\ p_val' = OneMinus(conf_levels[IF i > 1 THEN i - 1 ELSE i])
    /\ pc' = "done"
    /\ UNCHANGED <<n, o, e, dist, i, cl, ci, bhVars, fmtVars, appVars, hdiVars>>

\* return 1 - cl
Return ==
    /\ pc = "return"
    /\ p_val' = OneMinus(cl)
    /\ pc' = "done"
    /\ UNCHANGED <<n, o, e, dist, i, cl, ci, bhVars, fmtVars, appVars, hdiVars>>

NextPV == Iterate \/ Exhaust \/ Return

SpecPV == InitPV /\ [][NextPV]_vars

\* calculate_p_value as one step: the value Return hands back
calculate_p_value(d, nn, oo, ee) ==
    LET breaks == {j \in 1..NLevels :
                      loop_test(ci_ote(d, nn, oo, ee, conf_levels[j]))}
        last == IF breaks = {} THEN NLevels
                ELSE CHOOSE j \in breaks : \A k \in breaks : j <= k
    IN  OneMinus(conf_levels[last])

----------------------------------------------------------------------------
(* stats.py: BH_adjusted_pval                                              *)
(*                                                                         *)
(* A batch is a sequence of p-values; position j is index label j of the   *)
(* series.  Adjusted values are exact fractions in lowest terms.           *)

RECURSIVE GCD(_, _)
GCD(a, b) == IF b = 0 THEN a ELSE GCD(b, a % b)

Norm(x) == LET g == GCD(x[1], x[2]) IN <<x[1] \div g, x[2] \div g>>

RMin(x, y) == IF RLt(y, x) THEN y ELSE x

Perms(N) ==
    {f \in [1..N -> 1..N] : \A a \in 1..N : \A b \in 1..N : a # b => f[a] # f[b]}

\* Series.rank(), method='average', ascending: twice the rank of element j
\* (ties get the mean of the ranks they span, so ranks may end in .5)
rank2(ps, j) ==
    Cardinality({k \in 1..Len(ps) : ps[k] < ps[j]}) + 1
        + Cardinality({k \in 1..Len(ps) : ps[k] <= ps[j]})

\* sort_values(by="rank", ascending=False): the sort is not stable, any
\* order of the rows with non-increasing rank can come out
sort_values_orders(ps) ==
    {f \in Perms(Len(ps)) :
        \A a \in 1..Len(ps) : \A b \in 1..Len(ps) :
            a < b => rank2(ps, f[a]) >= rank2(ps, f[b])}

\* the factor taken upside down: p_val * rank / len(p_val_df)
scaled_Inverted(ps, j) == <<ps[j] * rank2(ps, j), Len(ps) * 2>>

\* p_val * len(p_val_df) / rank
scaled(ps, j) == <<ps[j] * Len(ps) * 2, rank2(ps, j)>>

\* the scaled column itself, without the running minimum
cummin_Missing(ps, f, k) == scaled(ps, f[k])

\* .cummin() at row k of the frame sorted in the order f
RECURSIVE cummin(_, _, _)
cummin(ps, f, k) ==
    IF k = 1 THEN scaled(ps, f[1])
    ELSE RMin(cummin(ps, f, k - 1), scaled(ps, f[k]))

\* the adjusted column left as the running minimum, without np.minimum
clip_Missing(x) == x

\* np.minimum(. , 1)
clip(x) == IF RLt(<<One, 1>>, x) THEN <<One, 1>> ELSE x

\* the adjusted column returned in sorted order, without sort_index
sort_index_Missing(f, j) == j

\* sort_index(): the row of the sorted frame that carries index label j
sort_index(f, j) == CHOOSE k \in DOMAIN f : f[k] = j

BH_adjusted_pval(ps, f) ==
    [j \in 1..Len(ps) |-> Norm(clip(cummin(ps, f, sort_index(f, j))))]

RECURSIVE SeqsUpTo(_, _)
SeqsUpTo(S, k) ==
    IF k = 0 THEN {<<>>}
    ELSE LET shorter == SeqsUpTo(S, k - 1)
         IN  shorter \cup {Append(q, x) : q \in shorter, x \in S}

\* p-values of the modelled batches: 0.02, 0.29, 0.6, 0.9 and 1.0
BatchPVals == {Dec(200), Dec(2900), Dec(6000), Dec(9000), One}

\* arguments that are not a collection of floats: a single float, None, a
\* list of strings that are not numerals, a list of None
OtherArgs ==
    {[type |-> "float", value |-> x] : x \in BatchPVals}
        \cup {[type |-> "NoneType", value |-> None]}
        \cup {[type |-> "list of str", value |-> q] :
                  q \in SeqsUpTo({"abc"}, MaxBatch) \ {<<>>}}
        \cup {[type |-> "list of NoneType", value |-> q] :
                  q \in SeqsUpTo({None}, MaxBatch) \ {<<>>}}

BHArgs ==
    {[type |-> "list of float", value |-> q] :
        q \in SeqsUpTo(BatchPVals, MaxBatch)} \cup OtherArgs

\* isinstance(p_vals, Iterable)
is_iterable(type) == type \notin {"float", "NoneType"}

InitBH ==
    /\ IdlePV
    /\ IdleFmt
    /\ IdleApp
    /\ IdleHDI
    /\ bh_pc = "call"
    /\ \E a \in BHArgs : bh_arg = a.type /\ p_vals = a.value
    /\ adj_p_vals = None
    /\ bh_error = NoError

BH_Call ==
    /\ bh_pc = "call"
    /\ IF ~is_iterable(bh_arg)
       THEN \* raise ValueError(f"...; received {p_vals=}")
            /\ bh_error' =
                  [type |-> "ValueError",
                   text |-> "BH adjustment only takes an iterable of p-vals",
                   shows |-> <<p_vals>>]
            /\ bh_pc' = "raised"
            /\ UNCHANGED adj_p_vals
       ELSE IF bh_arg = "list of str"
       THEN \* astype(float) raises on the first string
            /\ bh_error' =
                  [type |-> "ValueError",
                   text |-> "could not convert string to float",
                   shows |-> <<p_vals[1]>>]
            /\ bh_pc' = "raised"
            /\ UNCHANGED adj_p_vals
       ELSE IF bh_arg = "list of NoneType"
       THEN \* astype(float) turns None into NaN, and NaN stays NaN
            /\ adj_p_vals' = [j \in DOMAIN p_vals |-> "NaN"]
            /\ bh_pc' = "done"
            /\ UNCHANGED bh_error
       ELSE /\ \E f \in sort_values_orders(p_vals) :
                    adj_p_vals' = BH_adjusted_pval(p_vals, f)
            /\ bh_pc' = "done"
            /\ UNCHANGED bh_error
    /\ UNCHANGED <<pvVars, bh_arg, p_vals, fmtVars, appVars, hdiVars>>

NextBH == BH_Call

SpecBH == InitBH /\ [][NextBH]_vars

----------------------------------------------------------------------------
(* stats.py: p_val_to_str                                                  *)
(*                                                                         *)
(* The argument is a fraction <<num, den>> of sub-units.  The string       *)
(* returned is held as its three parts: the number printed, in             *)
(* thousandths; the text " (<)" that follows it in the branch p < 0.001;   *)
(* and the significance marker.  "0.001 (<) ***" is                        *)
(* [num |-> 1, less |-> " (<)", sig |-> " ***"].                           *)

\* np.round(p, 3): thousandths nearest to p, a tie going to the even one
round3(p) ==
    LET unit == p[2] * Dec(10)
        q == p[1] \div unit
        r == p[1] % unit
    IN  IF 2 * r < unit THEN q
        ELSE IF 2 * r > unit THEN q + 1
        ELSE IF q % 2 = 0 THEN q ELSE q + 1

\* the marker chosen with the bounds 0.01 and 0.05 included
sig_level_Inclusive(p) ==
    IF p[1] <= Dec(100) * p[2] THEN " **"
    ELSE IF p[1] <= Dec(500) * p[2] THEN " *"
    ELSE ""

\* if p_val < 0.01: " **" elif p_val < 0.05: " *" (else "")
sig_level(p) ==
    IF p[1] < Dec(100) * p[2] THEN " **"
    ELSE IF p[1] < Dec(500) * p[2] THEN " *"
    ELSE ""

p_val_to_str(p) ==
    IF p[1] < Dec(10) * p[2]
    THEN [num |-> 1, less |-> " (<)", sig |-> " ***"]
    ELSE [num |-> round3(p), less |-> "", sig |-> sig_level(p)]

\* p-values of (0, 1] handed to p_val_to_str: the raw values up to MaxP
\* ten-thousandths, thirds of them (as a rank of 1.5 produces), 0.5 and 1.0
FmtArgs ==
    {<<x, d>> : x \in 1..Dec(MaxP), d \in {1, 3}}
        \cup {<<Dec(5000), 1>>, <<One, 1>>}

InitFmt ==
    /\ IdlePV
    /\ IdleBH
    /\ IdleApp
    /\ IdleHDI
    /\ fmt_pc = "call"
    /\ p_arg \in FmtArgs
    /\ p_val_str = None

Fmt_Call ==
    /\ fmt_pc = "call"
    /\ p_val_str' = p_val_to_str(p_arg)
    /\ fmt_pc' = "done"
    /\ UNCHANGED <<pvVars, bhVars, p_arg, appVars, hdiVars>>

NextFmt == Fmt_Call

SpecFmt == InitFmt /\ [][NextFmt]_vars

----------------------------------------------------------------------------
(* app.py: the server function                                             *)
(*                                                                         *)
(* A data frame is the sequence of its rows, each row a record that        *)
(* carries its index label.  A numeric input holds a number or nothing     *)
(* (None): [given |-> FALSE] is an empty field, v is in units of 1/Half.   *)

NoInput == [given |-> FALSE, v |-> 0]
NumInput(x) == [given |-> TRUE, v |-> x]

\* isinstance(x, int) / isinstance(x, (int, float))
IsInt(x) == x.given /\ x.v % Half = 0
IsNumber(x) == x.given

\* np.round(x, d) of the fraction x, scale = 10^d: the multiple of 1/scale
\* nearest to x, a tie going to the even one
np_round(x, scale) ==
    LET q == (x[1] * scale) \div x[2]
        r == (x[1] * scale) % x[2]
    IN  IF 2 * r < x[2] THEN q
        ELSE IF 2 * r > x[2] THEN q + 1
        ELSE IF q % 2 = 0 THEN q ELSE q + 1

\* values of the three numeric inputs at the moment Calculate is clicked:
\* n in {None, 0, 1, 1 + 1/Half}, o in {None, -1/Half, 0, 1},
\* e in {None, 0, 1/Half, 1 + 1/Half}
InputsN == {NoInput, NumInput(0), NumInput(Half), NumInput(Half + 1)}
InputsO == {NoInput, NumInput(-1), NumInput(0), NumInput(Half)}
InputsE == {NoInput, NumInput(0), NumInput(1), NumInput(Half + 1)}

\* the options of the confidence_level select box: 99.5%, 99%, 95%, 90%
ConfidenceChoices == {Dec(9950), Dec(9900), Dec(9500), Dec(9000)}

\* beta(a=1/2 + o, b=1/2 + n - o) for the counts of the modelled session:
\* one quantile function for o = 0 and one for o > 0
beta(nn, oo) ==
    IF oo = 0
    THEN [cuts |-> <<lower_tail(Dec(100)) + 1, One + Dec(9500)>>,
          vals |-> <<0, 1, QDen>>]
    ELSE [cuts |-> <<lower_tail(Dec(9990)) + 1, One + Dec(100)>>,
          vals |-> <<0, 1, QDen>>]

\* the comparisons of the validation raise TypeError: a number is compared
\* with None (o <= n or e <= n with n an empty field)
validation_raises(nn, oo, ee) ==
    \/ IsNumber(oo) /\ ~nn.given
    \/ IsNumber(ee) /\ ~nn.given

is_n_valid(nn) == IsInt(nn) /\ nn.v > 0
is_o_valid(nn, oo) == IsNumber(oo) /\ oo.v <= nn.v /\ oo.v >= 0
is_e_valid(nn, ee) == IsNumber(ee) /\ ee.v <= nn.v /\ ee.v > 0

\* the row written at label -1
new_row(nn, oo, ee, c) ==
    LET d == beta(nn.v \div Half, oo.v)
        x == ci_ote(d, nn.v \div Half, oo.v, ee.v, c)
    IN  [index |-> -1,
         n |-> nn.v \div Half,
         o |-> oo.v,
         e |-> ee.v,
         OTE |-> np_round(<<oo.v, ee.v>>, 1000),
         conf_lvl |-> c,
         ci |-> <<np_round(x[1], 100), np_round(x[2], 100)>>,
         p_val |-> calculate_p_value(d, nn.v \div Half, oo.v, ee.v)]

\* which of the values read by a Calculate click are outside the ranges the
\* input form documents: n a positive integer, o a number of [0, n], e a
\* number of (0, n]
out_of_range(nn, oo, ee) ==
    (IF IsInt(nn) /\ nn.v > 0 THEN {} ELSE {"n"})
        \cup (IF oo.given /\ nn.given /\ 0 <= oo.v /\ oo.v <= nn.v
              THEN {} ELSE {"o"})
        \cup (IF ee.given /\ nn.given /\ 0 < ee.v /\ ee.v <= nn.v
              THEN {} ELSE {"e"})

\* what a run of update_results_df comes to for the given inputs: the
\* TypeError of the validation, the row to add, or the text of the modal
Outcome(nn, oo, ee, c) ==
    IF validation_raises(nn, oo, ee)
    THEN [kind |-> "raise", row |-> <<>>, m |-> "",
          failed |-> out_of_range(nn, oo, ee)]
    ELSE IF is_n_valid(nn) /\ is_o_valid(nn, oo) /\ is_e_valid(nn, ee)
    THEN [kind |-> "row", row |-> <<new_row(nn, oo, ee, c)>>, m |-> "",
          failed |-> out_of_range(nn, oo, ee)]
    ELSE [kind |-> "modal", row |-> <<>>,
          m |-> IF ~is_n_valid(nn) THEN "Invalid number of samples (n)"
                ELSE IF ~is_o_valid(nn, oo)
                THEN "Invalid number of observed events (o)"
                ELSE "Invalid number of expected events (e)",
          failed |-> out_of_range(nn, oo, ee)]

Outcomes ==
    {Outcome(nn, oo, ee, c) :
        nn \in InputsN, oo \in InputsO, ee \in InputsE, c \in ConfidenceChoices}

\* df.index = df.index + 1
shift_index(df) == [k \in DOMAIN df |-> [df[k] EXCEPT !.index = @ + 1]]

\* the frame left in the order of insertion, without sort_index
sorted_by_index_Missing(df) == df

\* df.sort_index() of a frame with distinct labels
sorted_by_index(df) ==
    [k \in DOMAIN df |->
        CHOOSE r \in {df[m] : m \in DOMAIN df} :
            Cardinality({m \in DOMAIN df : df[m].index < r.index}) = k - 1]

\* df.iloc[1:].reset_index(drop=True)
drop_first(df) ==
    [k \in 1..(Len(df) - 1) |-> [df[k + 1] EXCEPT !.index = k - 1]]

\* the frame without its labels, for comparison with the history
Rows(df) ==
    [k \in DOMAIN df |->
        [n |-> df[k].n, o |-> df[k].o, e |-> df[k].e, OTE |-> df[k].OTE,
         conf_lvl |-> df[k].conf_lvl, ci |-> df[k].ci, p_val |-> df[k].p_val]]

InitApp ==
    /\ IdlePV
    /\ IdleBH
    /\ IdleFmt
    /\ IdleHDI
    /\ session = "open"
    /\ results_df = <<>>
    /\ results_df_to_display = <<>>
    /\ invalidated = TRUE
    /\ modal = ""
    /\ stack = <<>>
    /\ last_event = NoEvent

\* an input event is taken up once the previous flush is over
Ready == session = "open" /\ ~invalidated

\* @reactive.event(input.calculate_button)
update_results_df ==
    /\ Ready
    /\ Len(results_df) < MaxRows
    /\ \E out \in Outcomes :
        /\ last_event' = [name |-> "calculate", failed |-> out.failed,
                          computed |-> out.kind = "row"]
        /\ IF out.kind = "raise"
           THEN /\ session' = "closed"
                /\ UNCHANGED <<results_df, results_df_to_display, invalidated,
                               modal, stack>>
           ELSE IF out.kind = "row"
           THEN LET appended == Append(results_df, out.row[1])
                    df == sorted_by_index(shift_index(appended))
                IN  /\ results_df' = df
                    /\ invalidated' = TRUE
                    /\ modal' = ""
                    /\ stack' = Rows(out.row) \o stack
                    /\ UNCHANGED <<session, results_df_to_display>>
           ELSE /\ modal' = out.m
                /\ UNCHANGED <<session, results_df, results_df_to_display,
                               invalidated, stack>>
    /\ UNCHANGED <<pvVars, bhVars, fmtVars, hdiVars>>

\* @reactive.event(input.clear_button)
clear_results_df ==
    /\ Ready
    /\ results_df' = <<>>
    /\ invalidated' = TRUE
    /\ modal' = ""
    /\ stack' = <<>>
    /\ last_event' = [name |-> "clear", failed |-> {}, computed |-> FALSE]
    /\ UNCHANGED <<session, results_df_to_display>>
    /\ UNCHANGED <<pvVars, bhVars, fmtVars, hdiVars>>

\* @reactive.event(input.undo_button)
remove_entry_from_results_df ==
    /\ Ready
    /\ IF Len(results_df) > 0
       THEN /\ results_df' = drop_first(results_df)
            /\ invalidated' = TRUE
            /\ stack' = Tail(stack)
       ELSE UNCHANGED <<results_df, invalidated, stack>>
    /\ modal' = ""
    /\ last_event' = [name |-> "undo", failed |-> {}, computed |-> FALSE]
    /\ UNCHANGED <<session, results_df_to_display>>
    /\ UNCHANGED <<pvVars, bhVars, fmtVars, hdiVars>>

\* the render with every p-value adjusted as a batch of its own
show_results_df_PerRow ==
    /\ session = "open"
    /\ invalidated
    /\ results_df_to_display' =
          [k \in DOMAIN results_df |->
              [index |-> results_df[k].index,
               n |-> results_df[k].n,
               o |-> results_df[k].o,
               e |-> results_df[k].e,
               OTE |-> results_df[k].OTE,
               conf_lvl |-> results_df[k].conf_lvl,
               ci |-> results_df[k].ci,
               p_val |-> p_val_to_str(<<results_df[k].p_val, 1>>),
               adj_p |-> p_val_to_str(<<results_df[k].p_val, 1>>)]]
    /\ invalidated' = FALSE
    /\ UNCHANGED <<session, results_df, modal, stack, last_event>>
    /\ UNCHANGED <<pvVars, bhVars, fmtVars, hdiVars>>

\* @render.data_frame: runs in the flush of every change of results_df
show_results_df ==
    /\ session = "open"
    /\ invalidated
    /\ \E f \in sort_values_orders([k \in DOMAIN results_df |-> results_df[k].p_val]) :
        LET raw == [k \in DOMAIN results_df |-> results_df[k].p_val]
            adj == BH_adjusted_pval(raw, f)
        IN  results_df_to_display' =
                [k \in DOMAIN results_df |->
                    [index |-> results_df[k].index,
                     n |-> results_df[k].n,
                     o |-> results_df[k].o,
                     e |-> results_df[k].e,
                     OTE |-> results_df[k].OTE,
                     conf_lvl |-> results_df[k].conf_lvl,
                     ci |-> results_df[k].ci,
                     p_val |-> p_val_to_str(<<raw[k], 1>>),
                     adj_p |-> p_val_to_str(adj[k])]]
    /\ invalidated' = FALSE
    /\ UNCHANGED <<session, results_df, modal, stack, last_event>>
    /\ UNCHANGED <<pvVars, bhVars, fmtVars, hdiVars>>

Next ==
    \/ update_results_df
    \/ clear_results_df
    \/ remove_entry_from_results_df
    \/ show_results_df

Spec == InitApp /\ [][Next]_vars

----------------------------------------------------------------------------
(* stats.py: ci_ote_hdi, calculate_beta_hdi                                *)
(*                                                                         *)
(* scipy.optimize.fmin is library code.  Its loop runs while               *)
(* fcalls < maxfun and iterations < maxiter, leaves by break once the      *)
(* simplex meets xtol and ftol, and otherwise takes a step that costs one  *)
(* to three evaluations of the function.  Past the loop it sets a warning  *)
(* flag, which is returned only with full_output, and returns the best     *)
(* vertex in every case.  fcalls starts at len(x0) + 1 and grows with      *)
(* every step, so of the two equal caps maxfun is the one that is reached. *)
(* Which vertex a step leaves best, and whether the *)
(* simplex then meets the tolerances, is left open.  What a call returns   *)
(* is held as [kind, ci]: kind "interval" for a returned interval, or the  *)
(* name of the exception raised.  Probabilities are numerators over        *)
(* 2 * One, as for ppf.                                                    *)

maxiter == MaxIter          \* 200 * len(x0)
maxfun == MaxIter           \* 200 * len(x0)

\* q = 1.0 - p, the initial guess
initial_guess(pp) == 2 * OneMinus(pp)

\* lower tail probabilities a vertex of the simplex is at: 0, q / 2 and q
Vertices(pp) == {0, OneMinus(pp), 2 * OneMinus(pp)}

\* dist.ppf([HDI_CI_left, p + HDI_CI_left])
beta_hdi(d, pp, left) == <<ppf(d, left), ppf(d, 2 * pp + left)>>

\* beta_hdi * n / e
ci_ote_hdi(d, nn, ee, pp, left) ==
    <<<<beta_hdi(d, pp, left)[1] * nn * Half, QDen * ee>>,
      <<beta_hdi(d, pp, left)[2] * nn * Half, QDen * ee>>>>

InitHDI ==
    /\ \E t \in ValidInputs : n = t[1] /\ o = t[2] /\ e = t[3]
    /\ dist = beta(n, o)
    /\ pc = "idle" /\ i = 0 /\ cl = None /\ ci = None /\ p_val = None
    /\ IdleBH
    /\ IdleFmt
    /\ IdleApp
    /\ hdi_pc = "fmin"
    /\ hdi_p \in ConfidenceChoices
    /\ sim = initial_guess(hdi_p)
    /\ iterations = 0
    /\ fcalls = 2
    /\ within_tol = FALSE
    /\ hdi_ci = NoOutcome

\* one pass of the loop of fmin that takes a step
fmin_Step ==
    /\ hdi_pc = "fmin"
    /\ fcalls < maxfun /\ iterations < maxiter
    /\ ~within_tol
    /\ sim' \in Vertices(hdi_p)
    /\ \E used \in 1..3 : fcalls' = fcalls + used
    /\ iterations' = iterations + 1
    /\ within_tol' \in BOOLEAN
    /\ UNCHANGED <<pvVars, bhVars, fmtVars, appVars, hdi_pc, hdi_p, hdi_ci>>

\* the loop of fmin ends: by break on the tolerances, or on a cap
fmin_End ==
    /\ hdi_pc = "fmin"
    /\ \/ fcalls >= maxfun
       \/ iterations >= maxiter
       \/ within_tol
    /\ hdi_pc' = "ppf"
    /\ UNCHANGED <<pvVars, bhVars, fmtVars, appVars, hdi_p, sim, iterations,
                   fcalls, within_tol, hdi_ci>>

\* HDI_CI_left = fmin(...)[0]; return dist.ppf(...); ci = beta_hdi * n / e
hdi_Return ==
    /\ hdi_pc = "ppf"
    /\ hdi_ci' = [kind |-> "interval",
                  ci |-> ci_ote_hdi(dist, n, e, hdi_p, sim)]
    /\ hdi_pc' = "done"
    /\ UNCHANGED <<pvVars, bhVars, fmtVars, appVars, hdi_p, sim, iterations,
                   fcalls, within_tol>>

NextHDI == fmin_Step \/ fmin_End \/ hdi_Return

SpecHDI == InitHDI /\ [][NextHDI]_vars

----------------------------------------------------------------------------
(* Vocabulary of the properties of calculate_p_value and ci_ote *)

\* the interval x has 1 strictly inside / does not have 1 strictly inside
Covers1(x) == x[1][1] < x[1][2] /\ x[2][2] < x[2][1]
Excludes1(x) == ~Covers1(x)

\* the equal-tailed interval of the call's (n, o, e) at confidence level c
IntervalAt(c) == ci_ote(dist, n, o, e, c)

\* positions of the grid whose interval covers / excludes 1
CoveringLevels == {j \in 1..NLevels : Covers1(IntervalAt(conf_levels[j]))}
ExcludingLevels == {j \in 1..NLevels : Excludes1(IntervalAt(conf_levels[j]))}

SetMin(S) == CHOOSE x \in S : \A y \in S : x <= y
SetMax(S) == CHOOSE x \in S : \A y \in S : y <= x

\* C1 (as stated): the returned value is 1 - cl for the largest grid level
\* whose interval excludes 1, the smallest 1 - cl among the excluding levels.
C1_LargestExcludingLevel ==
    pc = "done" =>
        /\ ExcludingLevels # {}
        /\ p_val = OneMinus(conf_levels[SetMax(ExcludingLevels)])

\* C1 (amended): calculate_p_value returns 1 - cl for the first grid level
\* whose interval has 1 strictly inside (low < 1 < high), and for the last
\* grid level when no interval of the grid has.
C1_FirstCoveringLevel ==
    pc = "done" =>
        p_val = OneMinus(conf_levels[IF CoveringLevels = {} THEN NLevels
                                     ELSE SetMin(CoveringLevels)])

\* the scan went past at least one excluding level and stopped on a covering
\* level before the end of the grid
C1_Witness ==
    /\ pc = "done"
    /\ 1 < i
    /\ i < NLevels
    /\ Covers1(ci)
    /\ p_val = OneMinus(conf_levels[i])

\* C2: for each confidence level of the select box, the interval at that
\* level does not cover 1 if and only if the p-value is below 1 - level.
C2_Duality ==
    pc = "done" =>
        \A c \in ConfidenceChoices :
            Excludes1(IntervalAt(c)) <=> p_val < OneMinus(c)

\* C3 (as stated): when every interval of the grid contains 1 (none
\* excludes 1), the result is 1 - cl for the last grid level.
C3_NoneExcludes_Floor ==
    (pc = "done" /\ ExcludingLevels = {}) =>
        p_val = OneMinus(conf_levels[NLevels])

\* C3 (amended): when no interval of the grid contains 1 (every one
\* excludes 1), the loop runs through the whole grid and the result is
\* 1 - cl for the last grid level, returned as a value.
C3_NoneCovers_Floor ==
    (pc = "done" /\ CoveringLevels = {}) =>
        /\ i = NLevels
        /\ p_val = OneMinus(conf_levels[NLevels])
        /\ p_val \in Int

C3_Witness ==
    /\ pc = "done"
    /\ CoveringLevels = {}
    /\ i = NLevels
    /\ p_val = 1

\* C8: with o = 0 the lower bound is 0, with o = n the upper bound is n/e,
\* and otherwise the bounds are the quantiles at (1 - cl)/2 and (1 + cl)/2
\* times n/e.
C8_EdgeCorrection ==
    i > 0 =>
        /\ o = 0 => ci[1][1] = 0
        /\ o = Half * n => ci[2][1] * e = n * Half * ci[2][2]
        /\ o # 0 =>
              ci[1][1] * QDen * e = ppf(dist, lower_tail(cl)) * n * Half * ci[1][2]
        /\ o # Half * n =>
              ci[2][1] * QDen * e = ppf(dist, upper_tail(cl)) * n * Half * ci[2][2]

\* an interval was computed for o = 0 where the lower quantile is not 0
C8_Witness ==
    /\ i > 0
    /\ o = 0
    /\ ppf(dist, lower_tail(cl)) > 0
    /\ ci[1][1] = 0

----------------------------------------------------------------------------
(* Properties of BH_adjusted_pval *)

\* the Benjamini-Hochberg reference value of element j: the least of
\* p_k * N / rank_k over the elements k ranked at or above j, at most 1
BHReference(ps, j) ==
    LET above == {k \in 1..Len(ps) : rank2(ps, k) >= rank2(ps, j)}
        least == CHOOSE k \in above :
                    \A m \in above : RLe(<<ps[k] * Len(ps) * 2, rank2(ps, k)>>,
                                         <<ps[m] * Len(ps) * 2, rank2(ps, m)>>)
        v == <<ps[least] * Len(ps) * 2, rank2(ps, least)>>
    IN  IF RLt(<<One, 1>>, v) THEN <<One, 1>> ELSE v

AllEqual(ps) == \A a \in 1..Len(ps) : \A b \in 1..Len(ps) : ps[a] = ps[b]

\* a call on a batch of p-values has returned
Adjusted == bh_pc = "done" /\ bh_arg = "list of float"

\* C4: on a batch of equal p-values every output is that p-value.
C4_EqualBatchUnchanged ==
    (Adjusted /\ Len(p_vals) >= 1 /\ AllEqual(p_vals)) =>
        \A j \in 1..Len(p_vals) : REq(adj_p_vals[j], <<p_vals[j], 1>>)

C6_LengthAndAlignment ==
    Adjusted =>
        /\ Len(adj_p_vals) = Len(p_vals)
        /\ DOMAIN adj_p_vals = DOMAIN p_vals
        /\ \A s \in Perms(Len(p_vals)) :
              LET permuted == [j \in 1..Len(p_vals) |-> p_vals[s[j]]]
              IN  \A f \in sort_values_orders(permuted) :
                      BH_adjusted_pval(permuted, f)
                          = [j \in 1..Len(p_vals) |-> adj_p_vals[s[j]]]

\* a batch of three with a tie and unequal adjusted values
C6_Witness ==
    /\ Adjusted
    /\ Len(p_vals) = 3
    /\ p_vals[1] = p_vals[3]
    /\ p_vals[1] # p_vals[2]
    /\ adj_p_vals[1] # adj_p_vals[2]

\* C7: every output is at most 1 and the outputs are non-decreasing in
\* the order of the p-values.
C7_BoundedMonotone ==
    Adjusted =>
        /\ \A j \in 1..Len(p_vals) : RLe(adj_p_vals[j], <<One, 1>>)
        /\ \A a \in 1..Len(p_vals) : \A b \in 1..Len(p_vals) :
              p_vals[a] <= p_vals[b] => RLe(adj_p_vals[a], adj_p_vals[b])

\* an output that the clip to 1 brought down, next to a smaller one
C7_Witness ==
    /\ Adjusted
    /\ \E a \in 1..Len(p_vals) : \E b \in 1..Len(p_vals) :
          /\ p_vals[a] < p_vals[b]
          /\ RLt(adj_p_vals[a], adj_p_vals[b])
          /\ adj_p_vals[b] = <<One, 1>>
          /\ RLt(<<One, 1>>, scaled(p_vals, b))

----------------------------------------------------------------------------
(* Properties of p_val_to_str *)

\* C9: one class per p-value: "***" with the text "0.001 (<)" iff
\* p < 0.001, "**" iff 0.001 <= p < 0.01, "*" iff 0.01 <= p < 0.05, no
\* marker iff p >= 0.05; outside the first class the number printed is p
\* rounded to 3 decimals.
C9_SignificanceClasses ==
    fmt_pc = "done" =>
        LET num == p_arg[1]
            den == p_arg[2]
            unit == Dec(10) * den
        IN  /\ p_val_str.sig \in {" ***", " **", " *", ""}
            /\ p_val_str.sig = " ***" <=> num < Dec(10) * den
            /\ (p_val_str.num = 1 /\ p_val_str.less = " (<)") <=>
                  num < Dec(10) * den
            /\ p_val_str.sig = " **" <=>
                  (Dec(10) * den <= num /\ num < Dec(100) * den)
            /\ p_val_str.sig = " *" <=>
                  (Dec(100) * den <= num /\ num < Dec(500) * den)
            /\ p_val_str.sig = "" <=> Dec(500) * den <= num
            /\ num >= Dec(10) * den =>
                  /\ p_val_str.less = ""
                  /\ 2 * (num - p_val_str.num * unit) <= unit
                  /\ 2 * (p_val_str.num * unit - num) <= unit

\* the p-value 0.05 itself was formatted: no marker, printed as 0.05
C9_Witness ==
    /\ fmt_pc = "done"
    /\ p_arg = <<Dec(500), 1>>
    /\ p_val_str = [num |-> 50, less |-> "", sig |-> ""]

----------------------------------------------------------------------------
(* Properties of the results table *)

\* C10: the rows of the results table are the stack of the rows pushed by
\* Calculate and not yet popped by Undo or dropped by Clear, newest first,
\* under index labels 0, 1, 2, ...
C10_TableIsStack ==
    session # "idle" =>
        /\ Rows(results_df) = stack
        /\ \A k \in DOMAIN results_df : results_df[k].index = k - 1

\* a Calculate put a row in front of two earlier, different rows
C10_Witness ==
    /\ session = "open"
    /\ Len(results_df) = 3
    /\ Rows(results_df) = stack
    /\ results_df[1].p_val # results_df[2].p_val
    /\ results_df[2].p_val # results_df[3].p_val

\* the text a modal of update_results_df opens with, for the input it names
ModalNaming(x) ==
    IF x = "n" THEN "Invalid number of samples (n)"
    ELSE IF x = "o" THEN "Invalid number of observed events (o)"
    ELSE "Invalid number of expected events (e)"

\* C11: a Calculate click that read an n, o or e outside its range leaves
\* the results table unchanged, computes neither interval nor p-value, and
\* shows a modal that names one of the inputs that are out of range.
C11_InvalidInputsShowModal ==
    [][(update_results_df /\ last_event'.failed # {}) =>
          /\ results_df' = results_df
          /\ ~last_event'.computed
          /\ modal' \in {ModalNaming(x) : x \in last_event'.failed}]_vars

----------------------------------------------------------------------------
(* Properties of ci_ote_hdi *)

\* the loop of fmin ended on a cap with the tolerances not met
Nonconverged ==
    /\ hdi_pc \in {"ppf", "done"}
    /\ ~within_tol
    /\ (fcalls >= maxfun \/ iterations >= maxiter)

\* C12: when the minimizer ends on its cap without meeting the tolerance,
\* the caller gets the failure NumericalNonconvergence and no interval.
C12_NonconvergenceSurfaced ==
    (hdi_pc = "done" /\ Nonconverged) =>
        /\ hdi_ci.kind = "NumericalNonconvergence"
        /\ hdi_ci.ci = <<>>

----------------------------------------------------------------------------
(* Properties of BH_adjusted_pval on other arguments *)

\* C13: a call whose argument is not an iterable of numeric p-values
\* raises the ValueError "BH adjustment only takes an iterable of p-vals"
\* with the received value in its message, and returns nothing.
C13_InvalidInputRejected ==
    (bh_pc \in {"done", "raised"} /\ bh_arg # "list of float") =>
        /\ bh_pc = "raised"
        /\ bh_error.type = "ValueError"
        /\ bh_error.text = "BH adjustment only takes an iterable of p-vals"
        /\ bh_error.shows = <<p_vals>>
        /\ adj_p_vals = None

----------------------------------------------------------------------------
(* Properties of the scan of calculate_p_value *)

\* the loop has ended
Stopped == pc \in {"return", "done"}

\* C14 (as stated): the levels are evaluated in strictly increasing order,
\* the scan stops at the first level whose interval excludes 1, reports
\* 1 - cl for it, and evaluates no level after it.
C14_StopsAtFirstExcluding ==
    /\ [](/\ \A j \in 1..(i - 1) : conf_levels[j] < conf_levels[j + 1]
          /\ (Stopped /\ ExcludingLevels # {}) => i = SetMin(ExcludingLevels)
          /\ pc = "done" => p_val = OneMinus(conf_levels[i]))
    /\ [][Stopped => UNCHANGED <<i, cl, ci>>]_vars

\* C14 (amended): the levels are evaluated one after the other in the order
\* of the grid, which never decreases; the scan goes on while the interval
\* of the level does not have 1 strictly inside and stops at the first
\* level whose interval has, or at the last level when none has; it reports
\* 1 - cl for the level it stopped at and evaluates no level after it.
C14_StopsAtFirstCovering ==
    /\ [](/\ i > 1 => conf_levels[i - 1] <= conf_levels[i]
          /\ i > 0 => (cl = conf_levels[i] /\ ci = IntervalAt(cl))
          /\ (pc = "loop" /\ i > 0) => Excludes1(ci)
          /\ Stopped => (Covers1(ci) \/ i = NLevels)
          /\ pc = "done" =>
                /\ i = (IF CoveringLevels = {} THEN NLevels
                        ELSE SetMin(CoveringLevels))
                /\ p_val = OneMinus(conf_levels[i]))
    /\ [][i' # i => i' = i + 1]_vars
    /\ [][Stopped => UNCHANGED <<i, cl, ci>>]_vars

\* the scan went over the whole grid, the repeated level 0.999 included,
\* and stopped by break on the last level
C14_Witness ==
    /\ pc = "done"
    /\ i = NLevels
    /\ Covers1(ci)
    /\ CoveringLevels = {NLevels}
    /\ conf_levels[108] = conf_levels[109]

\* C15: the levels the scan evaluates are finitely many, strictly
\* increasing, inside (0, 1) and each evaluated once, and a scan that
\* exhausts the grid returns 1 - cl of the last level.
C15_GridSweptOnce ==
    /\ i <= NLevels
    /\ \A j \in 1..i : 0 < conf_levels[j] /\ conf_levels[j] < One
    /\ \A j \in 1..(i - 1) : conf_levels[j] < conf_levels[j + 1]
    /\ (pc = "done" /\ CoveringLevels = {}) =>
          (i = NLevels /\ p_val = OneMinus(conf_levels[NLevels]))

\* C17: an interval with a bound equal to 1 does not end the scan; with
\* o = n and e = n the upper bound is 1 at every level, the scan runs to the
\* end of the grid and returns the smallest 1 - cl of the grid.
C17_BoundOnOneNotInside ==
    /\ [][(i' = i + 1 /\ (REq(ci'[1], ROne) \/ REq(ci'[2], ROne))) =>
            pc' = "loop"]_vars
    /\ []((o = Half * n /\ e = Half * n) =>
            /\ i > 0 => REq(ci[2], ROne)
            /\ Stopped => i = NLevels
            /\ pc = "done" =>
                  /\ p_val = OneMinus(conf_levels[NLevels])
                  /\ \A j \in 1..NLevels : p_val <= OneMinus(conf_levels[j]))

C17_Witness ==
    /\ pc = "done"
    /\ o = Half * n
    /\ e = Half * n
    /\ REq(ci[2], ROne)
    /\ i = NLevels
    /\ p_val = OneMinus(conf_levels[NLevels])

----------------------------------------------------------------------------
(* Properties of the displayed table *)

RawPVals == [k \in DOMAIN results_df |-> results_df[k].p_val]

\* C16: once the render has run, the displayed table has the rows of the
\* results table in the same order, its adjusted column is
\* BH_adjusted_pval of the raw p-values of the whole current table, and
\* the render leaves the results table as it was.
C16_DisplayIsCurrentBatch ==
    /\ []((session # "idle" /\ ~invalidated) =>
            /\ Len(results_df_to_display) = Len(results_df)
            /\ \A k \in DOMAIN results_df :
                  /\ results_df_to_display[k].index = results_df[k].index
                  /\ results_df_to_display[k].n = results_df[k].n
                  /\ results_df_to_display[k].o = results_df[k].o
                  /\ results_df_to_display[k].e = results_df[k].e
                  /\ results_df_to_display[k].conf_lvl = results_df[k].conf_lvl
                  /\ results_df_to_display[k].ci = results_df[k].ci
                  /\ results_df_to_display[k].p_val =
                        p_val_to_str(<<results_df[k].p_val, 1>>)
            /\ \E f \in sort_values_orders(RawPVals) :
                  \A k \in DOMAIN results_df :
                      results_df_to_display[k].adj_p =
                          p_val_to_str(BH_adjusted_pval(RawPVals, f)[k]))
    /\ [][invalidated /\ ~invalidated' => results_df' = results_df]_vars

\* a table of two rows is displayed with an adjusted p-value that is not
\* the raw one
C16_Witness ==
    /\ session = "open"
    /\ ~invalidated
    /\ Len(results_df) = 2
    /\ Len(results_df_to_display) = 2
    /\ \E k \in 1..2 :
          results_df_to_display[k].adj_p # results_df_to_display[k].p_val

----------------------------------------------------------------------------
(* Further properties of BH_adjusted_pval *)

====
